---- MODULE Spec2Model ----
(***************************************************************************)
(* Model of web/static/js/main.js: the browser-side view updater of the    *)
(* trivia display.  The state is the content of the display regions the    *)
(* script binds at DOMContentLoaded; the operations are the two socket     *)
(* handlers, 'connect' and 'game_update'.                                  *)
(*                                                                         *)
(* A message payload is a JSON object.  A JSON value is modelled as a      *)
(* record [t, s, n, a]: t is the JavaScript type, s the text of a string,  *)
(* n the value of a number, a the elements of an array.  A key that the    *)
(* payload does not carry reads as `undefined`.                            *)
(***************************************************************************)
EXTENDS Integers, Sequences, FiniteSets

-----------------------------------------------------------------------------
(* Bounds of the model *)

\* longest hints array a message carries
MaxHints == 2
\* longest rounds array a message carries
MaxRounds == 3
\* most fields one message carries
MaxFields == 2

-----------------------------------------------------------------------------
(* JavaScript values *)

Undefined == [t |-> "undefined", s |-> "", n |-> 0, a |-> <<>>]
Null == [t |-> "null", s |-> "", n |-> 0, a |-> <<>>]
Str(x) == [t |-> "string", s |-> x, n |-> 0, a |-> <<>>]
Num(x) == [t |-> "number", s |-> "", n |-> x, a |-> <<>>]
Arr(xs) == [t |-> "array", s |-> "", n |-> 0, a |-> xs]

\* the test `data.field !== undefined`
Present(v) == v.t # "undefined"

Digit(d) == <<"0", "1", "2", "3", "4", "5", "6", "7", "8", "9">>[d + 1]

\* Number::toString for a non-negative integer
RECURSIVE NumberToString(_)
NumberToString(k) ==
    IF k < 10 THEN Digit(k) ELSE NumberToString(k \div 10) \o Digit(k % 10)

\* ToString of a primitive value
ToString(v) ==
    CASE v.t = "string" -> v.s
      [] v.t = "number" -> NumberToString(v.n)
      [] v.t = "null" -> "null"
      [] v.t = "undefined" -> "undefined"

\* TextContent with a seeded fault: undefined is converted like any other value
TextContentOfUndefined(v) ==
    CASE v.t = "null" -> ""
      [] v.t \in {"string", "number", "undefined"} -> ToString(v)

\* the text a node shows after `node.textContent = v`: textContent is a
\* nullable DOMString, so null and undefined give the empty text and any
\* other value is converted to a string
TextContent(v) ==
    CASE v.t \in {"null", "undefined"} -> ""
      [] v.t \in {"string", "number"} -> ToString(v)

\* property read v[i] (0-based): its value, or the TypeError that reading a
\* property of null or undefined throws
CanIndex(v) == v.t \notin {"null", "undefined"}
Index(v, i) ==
    IF v.t = "array" /\ i < Len(v.a) THEN v.a[i + 1] ELSE Undefined

\* DOMTokenList.add throws on a token that is the empty string
ValidToken(tok) == tok # ""

\* the timer's threshold in `data.time_left <= 5`
FlashThreshold == 5

\* ToNumber of a number, as `<=` applies it to data.time_left
ToNumber(v) ==
    CASE v.t = "number" -> v.n

-----------------------------------------------------------------------------
(* The display regions *)

VARIABLES
    statusBar,      \* children of #status-bar: [textContent, classList]
    questionText,   \* text of #question-text
    hintContainer,  \* children of #hint-container: the text of each <p>
    teamOneName,    \* text of #team-one-name
    teamOneScore,   \* text of #team-one-score
    teamTwoName,    \* text of #team-two-name
    teamTwoScore,   \* text of #team-two-score
    timerDisplay,   \* #timer: [textContent, flashing]
    connected,      \* the socket has connected
    received,       \* a game_update has been handled
    data,           \* the payload of the last game_update
    thrownAt,       \* the field whose handling threw in the last game_update, or "none"
    latest          \* per field, the value of the last payload that carried it

dom == <<statusBar, questionText, hintContainer, teamOneName, teamOneScore,
         teamTwoName, teamTwoScore, timerDisplay>>
vars == <<statusBar, questionText, hintContainer, teamOneName, teamOneScore,
          teamTwoName, teamTwoScore, timerDisplay, connected, received, data,
          thrownAt, latest>>

\* the fields of a payload, in the order the handler reads them
Fields == <<"question", "hints", "team_names", "scores", "rounds", "time_left">>

\* the regions as one record, threaded through the statements of the handler;
\* thrown names the field whose statement threw, after which nothing runs
Regions ==
    [statusBar |-> statusBar, questionText |-> questionText,
     hintContainer |-> hintContainer, teamOneName |-> teamOneName,
     teamOneScore |-> teamOneScore, teamTwoName |-> teamTwoName,
     teamTwoScore |-> teamTwoScore, timerDisplay |-> timerDisplay,
     thrown |-> "none"]

\* AppendCircles with a seeded fault: the indicator is labelled index, not index + 1
RECURSIVE AppendCirclesZeroBased(_, _, _)
AppendCirclesZeroBased(st, rounds, index) ==
    IF index >= Len(rounds) THEN st
    ELSE LET status == ToString(rounds[index + 1])
         IN IF ~ValidToken(status) THEN [st EXCEPT !.thrown = "rounds"]
            ELSE AppendCirclesZeroBased(
                   [st EXCEPT !.statusBar = Append(@,
                       [textContent |-> TextContent(Num(index)),
                        classList |-> {"status-circle", status}])],
                   rounds, index + 1)

\* rounds.forEach((status, index) => ...) from element index on
RECURSIVE AppendCircles(_, _, _)
AppendCircles(st, rounds, index) ==
    IF index >= Len(rounds) THEN st
    ELSE LET status == ToString(rounds[index + 1])
         IN IF ~ValidToken(status) THEN [st EXCEPT !.thrown = "rounds"]
            ELSE AppendCircles(
                   [st EXCEPT !.statusBar = Append(@,
                       [textContent |-> TextContent(Num(index + 1)),
                        classList |-> {"status-circle", status}])],
                   rounds, index + 1)

\* updateStatusBar with a seeded fault: the bar is not cleared before the rebuild
updateStatusBarAppending(st, rounds) ==
    IF rounds.t # "array" THEN [st EXCEPT !.thrown = "rounds"]
    ELSE AppendCircles(st, rounds.a, 0)

updateStatusBar(st, rounds) ==
    LET cleared == [st EXCEPT !.statusBar = <<>>]
    IN IF rounds.t # "array" THEN [cleared EXCEPT !.thrown = "rounds"]
       ELSE AppendCircles(cleared, rounds.a, 0)

\* hints.forEach(hintText => ...) from element index on
RECURSIVE AppendHints(_, _, _)
AppendHints(st, hints, index) ==
    IF index >= Len(hints) THEN st
    ELSE AppendHints(
           [st EXCEPT !.hintContainer = Append(@, TextContent(hints[index + 1]))],
           hints, index + 1)

\* updateHints with a seeded fault: the container is not cleared before the rebuild
updateHintsAppending(st, hints) ==
    CASE hints.t = "null" -> [st EXCEPT !.thrown = "hints"]
      [] hints.t = "number" -> st
      [] hints.t = "string" ->
            IF hints.s = "" THEN st ELSE [st EXCEPT !.thrown = "hints"]
      [] hints.t = "array" ->
            IF Len(hints.a) > 0 THEN AppendHints(st, hints.a, 0) ELSE st

updateHints(st, hints) ==
    LET cleared == [st EXCEPT !.hintContainer = <<>>]
    IN CASE hints.t = "null" -> [cleared EXCEPT !.thrown = "hints"]
         [] hints.t = "number" -> cleared
         [] hints.t = "string" ->
               IF hints.s = "" THEN cleared
               ELSE [cleared EXCEPT !.thrown = "hints"]
         [] hints.t = "array" ->
               IF Len(hints.a) > 0 THEN AppendHints(cleared, hints.a, 0)
               ELSE cleared

\* SetQuestion with a seeded fault: a new question also empties the hint container
SetQuestionResettingHints(st, d) ==
    IF st.thrown # "none" THEN st
    ELSE IF Present(d.question)
         THEN [st EXCEPT !.questionText = TextContent(d.question),
                         !.hintContainer = <<>>]
         ELSE st

SetQuestion(st, d) ==
    IF st.thrown # "none" THEN st
    ELSE IF Present(d.question)
         THEN [st EXCEPT !.questionText = TextContent(d.question)]
         ELSE st

SetHints(st, d) ==
    IF st.thrown # "none" THEN st
    ELSE IF Present(d.hints) THEN updateHints(st, d.hints) ELSE st

SetTeamNames(st, d) ==
    IF st.thrown # "none" THEN st
    ELSE IF Present(d.team_names)
         THEN IF ~CanIndex(d.team_names)
              THEN [st EXCEPT !.thrown = "team_names"]
              ELSE [st EXCEPT
                      !.teamOneName = TextContent(Index(d.team_names, 0)),
                      !.teamTwoName = TextContent(Index(d.team_names, 1))]
         ELSE st

SetScores(st, d) ==
    IF st.thrown # "none" THEN st
    ELSE IF Present(d.scores)
         THEN IF ~CanIndex(d.scores)
              THEN [st EXCEPT !.thrown = "scores"]
              ELSE [st EXCEPT
                      !.teamOneScore = TextContent(Index(d.scores, 0)),
                      !.teamTwoScore = TextContent(Index(d.scores, 1))]
         ELSE st

\* SetRounds with a seeded fault: a payload without rounds empties the status bar
SetRoundsOrClear(st, d) ==
    IF st.thrown # "none" THEN st
    ELSE IF Present(d.rounds) THEN updateStatusBar(st, d.rounds)
         ELSE [st EXCEPT !.statusBar = <<>>]

SetRounds(st, d) ==
    IF st.thrown # "none" THEN st
    ELSE IF Present(d.rounds) THEN updateStatusBar(st, d.rounds) ELSE st

\* SetTimer with a seeded fault: a payload without time_left empties the text but
\* leaves the flashing class
SetTimerKeepingFlashing(st, d) ==
    IF st.thrown # "none" THEN st
    ELSE IF Present(d.time_left)
         THEN [st EXCEPT !.timerDisplay =
                 [textContent |-> TextContent(d.time_left),
                  flashing |-> ToNumber(d.time_left) <= FlashThreshold]]
         ELSE [st EXCEPT !.timerDisplay.textContent = ""]

\* SetTimer with a seeded fault: the timer flashes below the threshold only
SetTimerBelowThreshold(st, d) ==
    IF st.thrown # "none" THEN st
    ELSE IF Present(d.time_left)
         THEN [st EXCEPT !.timerDisplay =
                 [textContent |-> TextContent(d.time_left),
                  flashing |-> ToNumber(d.time_left) < FlashThreshold]]
         ELSE [st EXCEPT !.timerDisplay =
                 [textContent |-> "", flashing |-> FALSE]]

SetTimer(st, d) ==
    IF st.thrown # "none" THEN st
    ELSE IF Present(d.time_left)
         THEN [st EXCEPT !.timerDisplay =
                 [textContent |-> TextContent(d.time_left),
                  flashing |-> ToNumber(d.time_left) <= FlashThreshold]]
         ELSE [st EXCEPT !.timerDisplay =
                 [textContent |-> "", flashing |-> FALSE]]

\* HandleGameUpdate with a seeded fault: the timer is updated first
HandleTimerFirst(st, d) ==
    SetRounds(SetScores(SetTeamNames(SetHints(SetQuestion(SetTimer(st, d), d), d), d), d), d)

\* the body of the game_update handler
HandleGameUpdate(st, d) ==
    SetTimer(SetRounds(SetScores(SetTeamNames(SetHints(SetQuestion(st, d), d), d), d), d), d)

-----------------------------------------------------------------------------
(* The payloads the server sends *)

HintsOf(k) == Arr([i \in 1..k |-> Str("hint " \o NumberToString(i))])

TagAt(i) == <<"won", "pending", "lost">>[((i - 1) % 3) + 1]
RoundsOf(k) == Arr([i \in 1..k |-> Str(TagAt(i))])
\* k rounds of which round j carries the empty tag
RoundsWithEmptyTag(k, j) ==
    Arr([i \in 1..k |-> IF i = j THEN Str("") ELSE Str(TagAt(i))])

QuestionValues == {Str("Capital of France?")}
HintsValues == {HintsOf(0), HintsOf(MaxHints), Null}
TeamNamesValues == {Arr(<<Str("Red"), Str("Blue")>>), Arr(<<Str("Red")>>), Null}
ScoresValues == {Arr(<<Num(3), Num(5)>>), Arr(<<Num(10)>>)}
RoundsValues ==
    {RoundsOf(MaxRounds), RoundsWithEmptyTag(MaxRounds, 2), Null}
TimeLeftValues == {Num(FlashThreshold), Num(FlashThreshold + 1)}

Carried(d) == {i \in 1..Len(Fields) : Present(d[Fields[i]])}

Messages ==
    {d \in [question : QuestionValues \cup {Undefined},
            hints : HintsValues \cup {Undefined},
            team_names : TeamNamesValues \cup {Undefined},
            scores : ScoresValues \cup {Undefined},
            rounds : RoundsValues \cup {Undefined},
            time_left : TimeLeftValues \cup {Undefined}] :
        Cardinality(Carried(d)) <= MaxFields}

\* the well-formed payloads: every field absent or of the shape the data
\* model gives it
Snapshots ==
    {d \in [question : QuestionValues \cup {Str("2+2?"), Undefined},
            hints : {HintsOf(k) : k \in 0..MaxHints} \cup {Undefined},
            team_names : {Arr(<<Str("Red"), Str("Blue")>>),
                          Arr(<<Str("Blue"), Str("Red")>>), Undefined},
            scores : {Arr(<<Num(3), Num(5)>>), Arr(<<Num(10), Num(0)>>), Undefined},
            rounds : {RoundsOf(k) : k \in {1, MaxRounds}} \cup {Undefined},
            time_left : TimeLeftValues \cup {Undefined}] :
        Cardinality(Carried(d)) <= MaxFields}

NoMessage ==
    [question |-> Undefined, hints |-> Undefined, team_names |-> Undefined,
     scores |-> Undefined, rounds |-> Undefined, time_left |-> Undefined]

-----------------------------------------------------------------------------
(* The page and the two handlers *)

\* the content of the bound elements when the script starts; the markup is the
\* host page's, and placeholder texts stand for it
InitialPage ==
    [statusBar |-> <<>>, questionText |-> "Waiting for the game to start...",
     hintContainer |-> <<>>, teamOneName |-> "Team 1", teamOneScore |-> "0",
     teamTwoName |-> "Team 2", teamTwoScore |-> "0",
     timerDisplay |-> [textContent |-> "", flashing |-> FALSE]]

Init ==
    /\ statusBar = InitialPage.statusBar
    /\ questionText = InitialPage.questionText
    /\ hintContainer = InitialPage.hintContainer
    /\ teamOneName = InitialPage.teamOneName
    /\ teamOneScore = InitialPage.teamOneScore
    /\ teamTwoName = InitialPage.teamTwoName
    /\ teamTwoScore = InitialPage.teamTwoScore
    /\ timerDisplay = InitialPage.timerDisplay
    /\ connected = FALSE
    /\ received = FALSE
    /\ data = NoMessage
    /\ thrownAt = "none"
    /\ latest = NoMessage

\* Connect with a seeded fault: a connection resets the question and the timer
ConnectResetting ==
    /\ connected' = TRUE
    /\ questionText' = ""
    /\ timerDisplay' = [textContent |-> "", flashing |-> FALSE]
    /\ UNCHANGED <<statusBar, hintContainer, teamOneName, teamOneScore,
                   teamTwoName, teamTwoScore, received, data, thrownAt, latest>>

\* socket.on('connect'): logs, touches nothing
Connect ==
    /\ connected' = TRUE
    /\ UNCHANGED <<dom, received, data, thrownAt, latest>>

\* the game_update handler on payload d, run to its end or to the statement
\* that throws
Handle(d) ==
    /\ connected
    /\ \E st \in {HandleGameUpdate(Regions, d)} :
         /\ statusBar' = st.statusBar
         /\ questionText' = st.questionText
         /\ hintContainer' = st.hintContainer
         /\ teamOneName' = st.teamOneName
         /\ teamOneScore' = st.teamOneScore
         /\ teamTwoName' = st.teamTwoName
         /\ teamTwoScore' = st.teamTwoScore
         /\ timerDisplay' = st.timerDisplay
         /\ thrownAt' = st.thrown
    /\ received' = TRUE
    /\ data' = d
    /\ UNCHANGED connected

\* socket.on('game_update') on any payload
GameUpdate(d) ==
    /\ Handle(d)
    /\ UNCHANGED latest

Next ==
    \/ Connect
    \/ \E d \in Messages : GameUpdate(d)

Spec == Init /\ [][Next]_vars

\* socket.on('game_update') on a DisplaySnapshot, with the history of the
\* fields carried so far
SnapshotUpdate(d) ==
    /\ Handle(d)
    /\ latest' = [f \in DOMAIN d |-> IF Present(d[f]) THEN d[f] ELSE latest[f]]

NextSnapshot ==
    \/ Connect
    \/ \E d \in Snapshots : SnapshotUpdate(d)

\* the page fed well-formed payloads only
SpecSnapshots == Init /\ [][NextSnapshot]_vars

-----------------------------------------------------------------------------
(* Vocabulary of the properties *)

\* a DisplaySnapshot: every field absent or of the shape the data model gives it
IsArrayOf(v, type) == v.t = "array" /\ \A i \in 1..Len(v.a) : v.a[i].t = type
IsPairOf(v, type) == IsArrayOf(v, type) /\ Len(v.a) = 2
IsTags(v) == IsArrayOf(v, "string") /\ \A i \in 1..Len(v.a) : v.a[i].s # ""
DisplaySnapshot(d) ==
    /\ ~Present(d.question) \/ d.question.t = "string"
    /\ ~Present(d.hints) \/ IsArrayOf(d.hints, "string")
    /\ ~Present(d.team_names) \/ IsPairOf(d.team_names, "string")
    /\ ~Present(d.scores) \/ IsPairOf(d.scores, "number")
    /\ ~Present(d.rounds) \/ IsTags(d.rounds)
    /\ ~Present(d.time_left) \/ d.time_left.t = "number"

\* the text a region is to show for a string or a number
Shown(v) == IF v.t = "string" THEN v.s ELSE NumberToString(v.n)
\* the text a region is to show for element i (0-based) of a pair, empty when
\* the pair has no such element
ShownElement(v, i) == IF i < Len(v.a) THEN Shown(v.a[i + 1]) ELSE ""
ShownHints(v) == [k \in 1..Len(v.a) |-> Shown(v.a[k])]
ShownRounds(v) ==
    [i \in 1..Len(v.a) |->
        [textContent |-> NumberToString(i),
         classList |-> {"status-circle", v.a[i].s}]]
ShownTimer(v) ==
    [textContent |-> NumberToString(v.n), flashing |-> v.n <= FlashThreshold]
ClearedTimer == [textContent |-> "", flashing |-> FALSE]

\* position of a field in the handler's order
Pos(f) == CHOOSE i \in 1..Len(Fields) : Fields[i] = f

\* a step of the game_update handler: the socket is connected and the step
\* records payload data'
UpdateStep == connected /\ received'

\* the step leaves the region of field f as it was
RegionUnchanged(f) ==
    CASE f = "question" -> questionText' = questionText
      [] f = "hints" -> hintContainer' = hintContainer
      [] f = "team_names" -> teamOneName' = teamOneName /\ teamTwoName' = teamTwoName
      [] f = "scores" -> teamOneScore' = teamOneScore /\ teamTwoScore' = teamTwoScore
      [] f = "rounds" -> statusBar' = statusBar
      [] f = "time_left" -> timerDisplay' = timerDisplay

\* after the step the region of field f shows the value v the payload carries
RegionShowsNext(f, v) ==
    CASE f = "question" -> questionText' = Shown(v)
      [] f = "hints" -> hintContainer' = ShownHints(v)
      [] f = "team_names" ->
            teamOneName' = ShownElement(v, 0) /\ teamTwoName' = ShownElement(v, 1)
      [] f = "scores" ->
            teamOneScore' = ShownElement(v, 0) /\ teamTwoScore' = ShownElement(v, 1)
      [] f = "rounds" -> statusBar' = ShownRounds(v)
      [] f = "time_left" -> timerDisplay' = ShownTimer(v)

\* the region of field f shows the value v
RegionShows(f, v) ==
    CASE f = "question" -> questionText = Shown(v)
      [] f = "hints" -> hintContainer = ShownHints(v)
      [] f = "team_names" ->
            teamOneName = ShownElement(v, 0) /\ teamTwoName = ShownElement(v, 1)
      [] f = "scores" ->
            teamOneScore = ShownElement(v, 0) /\ teamTwoScore = ShownElement(v, 1)
      [] f = "rounds" -> statusBar = ShownRounds(v)
      [] f = "time_left" -> timerDisplay = ShownTimer(v)

-----------------------------------------------------------------------------
(* C1 *)

\* C1 as stated: a game_update leaves the region of every field its payload
\* does not carry, the timer included, exactly as it was.
C1_AbsentFieldLeavesRegion ==
    [][UpdateStep =>
         \A i \in 1..Len(Fields) :
            ~Present(data'[Fields[i]]) => RegionUnchanged(Fields[i])]_vars

\* C1 as amended: a game_update leaves the region of every field other than
\* time_left that its payload does not carry exactly as it was, and when
\* time_left is absent and nothing throws the timer is cleared.
C1_AbsentFieldLeavesRegionButTimer ==
    [][UpdateStep =>
         /\ \A i \in 1..Len(Fields) :
               (Fields[i] # "time_left" /\ ~Present(data'[Fields[i]]))
                  => RegionUnchanged(Fields[i])
         /\ (~Present(data'.time_left) /\ thrownAt' = "none")
               => timerDisplay' = ClearedTimer]_vars

\* a payload carrying only question was handled on a page whose other regions
\* had content: the question shows, the other regions kept theirs, the timer
\* is cleared
C1_Witness ==
    /\ received
    /\ Carried(data) = {Pos("question")}
    /\ questionText = "Capital of France?"
    /\ statusBar # <<>>
    /\ hintContainer # <<>>
    /\ teamOneName = "Red"
    /\ teamOneScore = "3"
    /\ timerDisplay = ClearedTimer

-----------------------------------------------------------------------------
(* C2 *)

-----------------------------------------------------------------------------
(* C3 *)

-----------------------------------------------------------------------------
(* C4 *)

\* C4: after a game_update whose payload carries a hints sequence h, the hint
\* container has exactly Len(h) children, child k showing hint k, and nothing
\* from before.
C4_HintsRebuilt ==
    (received /\ data.hints.t = "array")
        => /\ Len(hintContainer) = Len(data.hints.a)
           /\ \A k \in 1..Len(data.hints.a) : hintContainer[k] = data.hints.a[k].s

C4_Witness ==
    /\ received
    /\ data.hints.t = "array"
    /\ Len(data.hints.a) = MaxHints
    /\ Len(hintContainer) = MaxHints
    /\ thrownAt # "none"

\* an empty hints sequence was handled and left the hint container empty
C4_WitnessEmpty ==
    /\ received
    /\ data.hints = Arr(<<>>)
    /\ hintContainer = <<>>

-----------------------------------------------------------------------------
(* C5 *)

-----------------------------------------------------------------------------
(* C6 *)

\* what C6 says of the pair v carried as field f: the two regions show
\* elements 0 and 1, empty when missing, and the field does not throw
PairShown(f, v) ==
    v.t = "array" => (RegionShows(f, v) /\ thrownAt # f)

\* the fields after team_names were processed: scores, rounds and time_left
\* show what the payload carries for them
RestProcessed ==
    /\ data.scores.t = "array" => RegionShows("scores", data.scores)
    /\ IsTags(data.rounds) => RegionShows("rounds", data.rounds)
    /\ data.time_left.t = "number" => RegionShows("time_left", data.time_left)
    /\ ~Present(data.time_left) => timerDisplay = ClearedTimer

-----------------------------------------------------------------------------
(* C7 *)

\* C7: whatever was handled before, invocations that threw included, a
\* well-formed payload is handled to the end and every region whose field it
\* carries shows the payload's value.
C7_LaterSnapshotHandled ==
    (received /\ DisplaySnapshot(data))
        => /\ thrownAt = "none"
           /\ \A i \in 1..Len(Fields) :
                 Present(data[Fields[i]]) => RegionShows(Fields[i], data[Fields[i]])

\* the status bar still holds the partial rebuild of an earlier payload whose
\* second tag threw, and a later well-formed payload carrying hints and
\* team_names was handled
C7_Witness ==
    /\ received
    /\ DisplaySnapshot(data)
    /\ Len(statusBar) = 1
    /\ Present(data.hints) /\ Len(data.hints.a) > 0
    /\ Present(data.team_names)
    /\ thrownAt = "none"
    /\ hintContainer = ShownHints(data.hints)
    /\ teamTwoName = "Blue"

-----------------------------------------------------------------------------
(* C8 *)

\* C8: a connect event leaves every display region as it was.
C8_ConnectLeavesRegions == [][Connect => UNCHANGED dom]_vars

\* the socket has connected and the page shows its initial content
C8_Witness ==
    /\ connected
    /\ ~received
    /\ questionText = InitialPage.questionText
    /\ teamOneName = InitialPage.teamOneName
    /\ timerDisplay = InitialPage.timerDisplay

-----------------------------------------------------------------------------
(* C9 *)

\* the content of the region of field f after well-formed payloads only:
\* the value latest[f] if some payload carried f, else the page's initial
\* content
ShowsLatest(f) ==
    IF Present(latest[f]) THEN RegionShows(f, latest[f])
    ELSE CASE f = "question" -> questionText = InitialPage.questionText
           [] f = "hints" -> hintContainer = InitialPage.hintContainer
           [] f = "team_names" ->
                 /\ teamOneName = InitialPage.teamOneName
                 /\ teamTwoName = InitialPage.teamTwoName
           [] f = "scores" ->
                 /\ teamOneScore = InitialPage.teamOneScore
                 /\ teamTwoScore = InitialPage.teamTwoScore
           [] f = "rounds" -> statusBar = InitialPage.statusBar

\* C9: after any sequence of well-formed payloads, the question, hint, name,
\* score and status-bar regions show the value of the latest payload that
\* carried their field, or the initial content if none did, and the timer is
\* decided by the last payload alone.
C9_RegionsShowLatest ==
    /\ \A f \in {"question", "hints", "team_names", "scores", "rounds"} : ShowsLatest(f)
    /\ thrownAt = "none"
    /\ timerDisplay = IF ~received THEN InitialPage.timerDisplay
                      ELSE IF Present(data.time_left) THEN ShownTimer(data.time_left)
                      ELSE ClearedTimer

\* question and scores were carried by earlier payloads only, the last payload
\* carried hints alone, and team_names was never carried
C9_Witness ==
    /\ received
    /\ Carried(data) = {Pos("hints")}
    /\ latest.question = Str("2+2?")
    /\ latest.scores = Arr(<<Num(10), Num(0)>>)
    /\ ~Present(latest.team_names)
    /\ Present(latest.time_left)
    /\ questionText = "2+2?"
    /\ teamOneScore = "10"
    /\ teamOneName = InitialPage.teamOneName
    /\ timerDisplay = ClearedTimer

-----------------------------------------------------------------------------
(* C10 *)

\* C10: when the handling of field f throws, every field before f that the
\* payload carries already shows in its region, every absent field before f
\* left its region as it was, and the region of every field after f, the
\* timer included, is as it was before the payload.
C10_ThrowKeepsEarlierAndLater ==
    [][(thrownAt' # "none" /\ UpdateStep) =>
         LET p == Pos(thrownAt')
         IN /\ \A i \in 1..(p - 1) :
                  IF Present(data'[Fields[i]])
                  THEN RegionShowsNext(Fields[i], data'[Fields[i]])
                  ELSE RegionUnchanged(Fields[i])
            /\ \A i \in (p + 1)..Len(Fields) : RegionUnchanged(Fields[i])]_vars

\* rounds threw after the question of the same payload was shown, and the
\* timer still shows the time of an earlier payload
C10_Witness ==
    /\ received
    /\ thrownAt = "rounds"
    /\ Present(data.question)
    /\ questionText = data.question.s
    /\ ~Present(data.time_left)
    /\ timerDisplay = [textContent |-> "5", flashing |-> TRUE]

====
